---------------------------- MODULE Spec2Model ----------------------------
(***************************************************************************)
(* A model of the NASA APOD viewer page script (src/code.py): the cached   *)
(* fetcher fetch_apod, the predicate validate_date, the sidebar/session    *)
(* bookkeeping of one script run, and the solar-system highlight plot.     *)
(*                                                                         *)
(* Text is modelled as sequences of one-character strings, so that the     *)
(* regular expression, strftime, str.lower, the "in" substring test and    *)
(* the f-string of the error message are computed character by character. *)
(***************************************************************************)
EXTENDS Integers, Sequences, FiniteSets, TLC

VARIABLES
    today,          \* the host's local date, what date.today() returns
    now,            \* the host's clock in seconds, what the cache's timer returns
    cache,          \* st.cache_data's entries of fetch_apod: argument -> entry
    http_log,       \* the GETs of the current call or run, each with what came back
    date_widget,    \* the date_input's widget state held by the framework
    widget_max,     \* max_value the date_input was last rendered with
    button_clicked, \* the Fetch button was pressed since the last run began
    session_state,  \* st.session_state
    pc,             \* the script run's position
    ns,             \* the script run's namespace: the names bound so far
    st_errors,      \* the st.error messages of the current run
    uncaught,       \* the exception that ended the current run, if any
    call,           \* the last call of fetch_apod: argument, the service's answer, outcome
    date_text,      \* the argument validate_date is called with
    v_out           \* what the call of validate_date gave

envVars == <<today, now>>
fetchVars == <<cache, http_log>>
pageVars == <<date_widget, widget_max, button_clicked, session_state, pc, ns,
              st_errors, uncaught>>
vars == <<today, now, cache, http_log, date_widget, widget_max,
          button_clicked, session_state, pc, ns, st_errors, uncaught, call,
          date_text, v_out>>

---------------------------------------------------------------------------
(* Bounds of the model.                                                    *)

\* How many times the local date rolls over to the next day.
MaxRollovers == 1
\* How many cache-clock ticks of TickSeconds pass.
MaxTicks == 2

---------------------------------------------------------------------------
(* Python values.                                                          *)

\* Python's None; no text equals it (every text is made of one-character strings).
None == <<"<None>">>

\* dict.get(key, default)
Get(d, key, default) == IF key \in DOMAIN d THEN d[key] ELSE default

\* d[key] = value on a dict
Put(d, key, value) == [k \in DOMAIN d \cup {key} |-> IF k = key THEN value ELSE d[k]]

\* truthiness of an optional string
Truthy(s) == s # None /\ s # <<>>

---------------------------------------------------------------------------
(* Text.                                                                   *)

Digits == <<"0", "1", "2", "3", "4", "5", "6", "7", "8", "9">>

IsDigit(c) == \E i \in 1..10 : Digits[i] = c

DigitVal(c) == (CHOOSE i \in 1..10 : Digits[i] = c) - 1

UpperCase ==
    <<"A", "B", "C", "D", "E", "F", "G", "H", "I", "J", "K", "L", "M", "N", "O", "P", "Q",
    "R", "S", "T", "U", "V", "W", "X", "Y", "Z">>

LowerCase ==
    <<"a", "b", "c", "d", "e", "f", "g", "h", "i", "j", "k", "l", "m", "n", "o", "p", "q",
    "r", "s", "t", "u", "v", "w", "x", "y", "z">>

\* str.lower()
LowerChar(c) == IF \E i \in 1..26 : UpperCase[i] = c
                THEN LowerCase[CHOOSE i \in 1..26 : UpperCase[i] = c]
                ELSE c

Lower(s) == [i \in 1..Len(s) |-> LowerChar(s[i])]

\* needle in hay
Contains(hay, needle) ==
    \E i \in 0..(Len(hay) - Len(needle)) : SubSeq(hay, i + 1, i + Len(needle)) = needle

\* int(s) of a string of decimal digits
RECURSIVE ToInt(_)
ToInt(s) == IF s = <<>> THEN 0
            ELSE 10 * ToInt(SubSeq(s, 1, Len(s) - 1)) + DigitVal(s[Len(s)])

\* str(n) of a natural number
RECURSIVE Str(_)
Str(n) == IF n < 10 THEN <<Digits[n + 1]>>
          ELSE Str(n \div 10) \o <<Digits[(n % 10) + 1]>>

\* "%0<w>d" % n
RECURSIVE Pad(_, _)
Pad(n, w) == IF w = 0 THEN <<>> ELSE Pad(n \div 10, w - 1) \o <<Digits[(n % 10) + 1]>>

\* The texts of the script.
S_NotFound ==
    <<"A", "P", "O", "D", " ", "n", "o", "t", " ", "f", "o", "u", "n", "d", " ", "f", "o", "r",
    " ", "t", "h", "e", " ", "s", "p", "e", "c", "i", "f", "i", "e", "d", " ", "d", "a", "t",
    "e", ".">>
S_RateLimited ==
    <<"R", "a", "t", "e", " ", "l", "i", "m", "i", "t", " ", "e", "x", "c", "e", "e", "d", "e",
    "d", ".", " ", "T", "r", "y", " ", "a", "g", "a", "i", "n", " ", "l", "a", "t", "e", "r",
    ".">>
S_FailedPrefix ==
    <<"A", "P", "I", " ", "r", "e", "q", "u", "e", "s", "t", " ", "f", "a", "i", "l", "e", "d",
    " ", "w", "i", "t", "h", " ", "s", "t", "a", "t", "u", "s", " ", "c", "o", "d", "e", " ">>
S_ResponseInfix ==
    <<".", " ", "R", "e", "s", "p", "o", "n", "s", "e", ":", " ">>
S_UntitledAPOD ==
    <<"U", "n", "t", "i", "t", "l", "e", "d", " ", "A", "P", "O", "D">>
S_UnknownDate ==
    <<"U", "n", "k", "n", "o", "w", "n", " ", "D", "a", "t", "e">>
S_NoDescription ==
    <<"N", "o", " ", "d", "e", "t", "a", "i", "l", "e", "d", " ", "d", "e", "s", "c", "r", "i",
    "p", "t", "i", "o", "n", " ", "p", "r", "o", "v", "i", "d", "e", "d", " ", "f", "o", "r",
    " ", "t", "h", "i", "s", " ", "p", "i", "c", "t", "u", "r", "e", ".">>
S_FetchErrorPrefix ==
    <<"A", "n", " ", "e", "r", "r", "o", "r", " ", "o", "c", "c", "u", "r", "r", "e", "d", " ",
    "w", "h", "i", "l", "e", " ", "f", "e", "t", "c", "h", "i", "n", "g", " ", "t", "h", "e",
    " ", "A", "P", "O", "D", ":", " ">>
S_ImageError ==
    <<"A", "n", " ", "e", "r", "r", "o", "r", " ", "o", "c", "c", "u", "r", "r", "e", "d", " ",
    "w", "h", "i", "l", "e", " ", "p", "r", "o", "c", "e", "s", "s", "i", "n", "g", " ", "t",
    "h", "e", " ", "i", "m", "a", "g", "e">>

\* Texts of the service's entries and answers.
S_BlueMoon ==
    <<"B", "l", "u", "e", " ", "M", "o", "o", "n">>
S_FullMoon ==
    <<"A", " ", "f", "u", "l", "l", " ", "m", "o", "o", "n", " ", "r", "i", "s", "e", "s", ".">>
S_MARS ==
    <<"M", "A", "R", "S">>
S_SeenFromEarth ==
    <<"S", "e", "e", "n", " ", "f", "r", "o", "m", " ", "E", "a", "r", "t", "h">>
S_Comet ==
    <<"A", " ", "c", "o", "m", "e", "t", " ", "a", "t", " ", "S", "u", "n", "s", "e", "t">>
S_Date ==
    <<"2", "0", "2", "4", "-", "0", "2", "-", "2", "8">>
S_Image ==
    <<"i", "m", "a", "g", "e">>
S_Video ==
    <<"v", "i", "d", "e", "o">>
S_Url ==
    <<"u">>
S_HdUrl ==
    <<"h">>
S_Oops ==
    <<"o", "o", "p", "s">>
S_Slow ==
    <<"s", "l", "o", "w">>
S_Gone ==
    <<"g", "o", "n", "e">>
S_JsonText ==
    <<"{", "}">>

\* Names of the bodies and the keywords.
B_Sun ==
    <<"S", "u", "n">>
B_Mercury ==
    <<"M", "e", "r", "c", "u", "r", "y">>
B_Venus ==
    <<"V", "e", "n", "u", "s">>
B_Earth ==
    <<"E", "a", "r", "t", "h">>
B_Mars ==
    <<"M", "a", "r", "s">>
B_Jupiter ==
    <<"J", "u", "p", "i", "t", "e", "r">>
B_Saturn ==
    <<"S", "a", "t", "u", "r", "n">>
B_Uranus ==
    <<"U", "r", "a", "n", "u", "s">>
B_Neptune ==
    <<"N", "e", "p", "t", "u", "n", "e">>
B_Moon ==
    <<"M", "o", "o", "n">>
K_mercury ==
    <<"m", "e", "r", "c", "u", "r", "y">>
K_venus ==
    <<"v", "e", "n", "u", "s">>
K_earth ==
    <<"e", "a", "r", "t", "h">>
K_mars ==
    <<"m", "a", "r", "s">>
K_jupiter ==
    <<"j", "u", "p", "i", "t", "e", "r">>
K_saturn ==
    <<"s", "a", "t", "u", "r", "n">>
K_uranus ==
    <<"u", "r", "a", "n", "u", "s">>
K_neptune ==
    <<"n", "e", "p", "t", "u", "n", "e">>
K_moon ==
    <<"m", "o", "o", "n">>
K_sun ==
    <<"s", "u", "n">>
K_comet ==
    <<"c", "o", "m", "e", "t">>
K_asteroid ==
    <<"a", "s", "t", "e", "r", "o", "i", "d">>
K_aurora ==
    <<"a", "u", "r", "o", "r", "a">>

---------------------------------------------------------------------------
(* Calendar dates: datetime.date as <<year, month, day>>.                  *)

IsLeap(y) == (y % 4 = 0 /\ y % 100 # 0) \/ y % 400 = 0

DaysInMonth(y, m) ==
    IF m = 2 THEN (IF IsLeap(y) THEN 29 ELSE 28)
    ELSE IF m \in {4, 6, 9, 11} THEN 30 ELSE 31

\* date(y, m, d) raises ValueError unless this holds
ValidDate(y, m, d) ==
    /\ y \in 1..9999
    /\ m \in 1..12
    /\ d \in 1..DaysInMonth(y, m)

\* a < b on dates
DateLT(a, b) ==
    \/ a[1] < b[1]
    \/ a[1] = b[1] /\ a[2] < b[2]
    \/ a[1] = b[1] /\ a[2] = b[2] /\ a[3] < b[3]

DateLE(a, b) == a = b \/ DateLT(a, b)

\* the day after d
NextDay(d) ==
    IF d[3] < DaysInMonth(d[1], d[2]) THEN <<d[1], d[2], d[3] + 1>>
    ELSE IF d[2] < 12 THEN <<d[1], d[2] + 1, 1>>
    ELSE <<d[1] + 1, 1, 1>>

\* d.strftime("%Y-%m-%d")
strftime(d) == Pad(d[1], 4) \o <<"-">> \o Pad(d[2], 2) \o <<"-">> \o Pad(d[3], 2)

\* date(1995, 6, 16): the first APOD
APOD_START == <<1995, 6, 16>>

\* The local date when the model starts, and the last one it reaches.
Today0 == <<2024, 2, 28>>

RECURSIVE DayAfter(_, _)
DayAfter(d, n) == IF n = 0 THEN d ELSE DayAfter(NextDay(d), n - 1)

LastDay == DayAfter(Today0, MaxRollovers)

---------------------------------------------------------------------------
(* validate_date                                                           *)

\* re.match(r"^\d{4}-\d{2}-\d{2}$", s): "$" matches at the end of the string
\* and also just before a newline that ends the string.  (The digits here are
\* the ASCII digits.)
ReMatch(s) ==
    /\ \/ Len(s) = 10
       \/ Len(s) = 11 /\ s[11] = "\n"
    /\ \A i \in {1, 2, 3, 4, 6, 7, 9, 10} : IsDigit(s[i])
    /\ s[5] = "-"
    /\ s[8] = "-"

\* dateutil's parser.parse(s) on a string the pattern matched: the tokens are
\* the three numbers and the separators (trailing whitespace is skipped); the
\* first number has four digits and is the year, then month, then day.  The
\* result is built with datetime's constructor, whose ValueError is raised as
\* ParserError, a ValueError.
parser_parse(s) ==
    LET y == ToInt(SubSeq(s, 1, 4))
        m == ToInt(SubSeq(s, 6, 7))
        d == ToInt(SubSeq(s, 9, 10))
    IN  IF ValidDate(y, m, d)
        THEN [raised |-> "", value |-> <<y, m, d>>]
        ELSE [raised |-> "ValueError", value |-> <<0, 0, 0>>]

\* parsed_date < date(1995, 6, 16)
BeforeStart(parsed_date) == DateLT(parsed_date, APOD_START)

\* A comparison that also turns away the day itself.
InFuture_Inclusive(parsed_date, day) == DateLE(day, parsed_date)

\* parsed_date > date.today()
InFuture(parsed_date, day) == DateLT(day, parsed_date)

\* the exceptions the except clause of validate_date handles
Handled(exc) == exc = "ValueError"

W_FromStart == "APOD data is available only from June 16, 1995 onwards."
W_Future == "Cannot fetch APOD for a future date."

\* validate_date(date_text) when date.today() is day: what it returns, the
\* st.warning it shows, and the exception that escapes it ("" for none).
validate_date(text, day) ==
    IF ~Truthy(text)
    THEN [result |-> TRUE, warning |-> "", raised |-> ""]
    ELSE IF ~ReMatch(text)
    THEN [result |-> FALSE, warning |-> "", raised |-> ""]
    ELSE LET p == parser_parse(text)
         IN  IF p.raised # ""
             THEN IF Handled(p.raised)
                  THEN [result |-> FALSE, warning |-> "", raised |-> ""]
                  ELSE [result |-> FALSE, warning |-> "", raised |-> p.raised]
             ELSE IF BeforeStart(p.value)
             THEN [result |-> FALSE, warning |-> W_FromStart, raised |-> ""]
             ELSE IF InFuture(p.value, day)
             THEN [result |-> FALSE, warning |-> W_Future, raised |-> ""]
             ELSE [result |-> TRUE, warning |-> "", raised |-> ""]

---------------------------------------------------------------------------
(* The APOD service.                                                       *)

API_URL == "https://api.nasa.gov/planetary/apod"
API_KEY == "DEMO_KEY"

\* A JSON object is a dict from field names to texts.  The service's entries:
\* every field present; a video without hdurl; only a title and a url; no field.
J_Moon ==
    [title |-> S_BlueMoon, date |-> S_Date, explanation |-> S_FullMoon,
     media_type |-> S_Image, url |-> S_Url, hdurl |-> S_HdUrl]
J_Mars ==
    [title |-> S_MARS, date |-> S_Date, explanation |-> S_SeenFromEarth,
     media_type |-> S_Video, url |-> S_Url]
J_Comet == [title |-> S_Comet, url |-> S_Url]
J_None == [k \in {} |-> <<>>]

\* What requests.get gives back: a response (status_code, text, json()), or
\* no response at all (failed: the connection error is raised by requests.get).
Ok(j) == [failed |-> FALSE, status_code |-> 200, text |-> S_JsonText, json |-> j]
Err(code, body) == [failed |-> FALSE, status_code |-> code, text |-> body, json |-> J_None]
NoResponse == [failed |-> TRUE, status_code |-> 0, text |-> <<>>, json |-> J_None]

Entries == {J_Moon, J_Mars, J_Comet, J_None}

Responses ==
    {Ok(j) : j \in Entries}
        \cup {Err(404, S_Gone), Err(429, S_Slow), Err(500, S_Oops), Err(204, <<>>), NoResponse}

---------------------------------------------------------------------------
(* fetch_apod                                                              *)

\* seconds an entry of st.cache_data(ttl=3600) lives
TTL == 3600

\* The clock advances in steps of half the TTL.
TickSeconds == TTL \div 2

NoExc == [type |-> "", message |-> <<>>]
Raise(type, message) == [raised |-> [type |-> type, message |-> message], value |-> J_None]
Return(value) == [raised |-> NoExc, value |-> value]

\* A request that carries the date whatever the argument is.
Params_AlwaysDate(date_str) == [api_key |-> API_KEY, date |-> date_str]

\* params of the GET
Params(date_str) ==
    IF Truthy(date_str)
    THEN [api_key |-> API_KEY, date |-> date_str]
    ELSE [api_key |-> API_KEY]

Request(date_str) == [url |-> API_URL, params |-> Params(date_str)]

\* f"API request failed with status code {response.status_code}. Response: {response.text}"
FailedMessage(response) ==
    S_FailedPrefix \o Str(response.status_code) \o S_ResponseInfix \o response.text

\* A status mapping whose last message leaves the response body out.
StatusOutcome_NoBody(response) ==
    IF response.status_code = 200 THEN Return(response.json)
    ELSE IF response.status_code = 404 THEN Raise("Exception", S_NotFound)
    ELSE IF response.status_code = 429 THEN Raise("Exception", S_RateLimited)
    ELSE Raise("Exception", S_FailedPrefix \o Str(response.status_code))

\* The body of fetch_apod from the response on: what it returns or raises.
StatusOutcome(response) ==
    IF response.status_code = 200 THEN Return(response.json)
    ELSE IF response.status_code = 404 THEN Raise("Exception", S_NotFound)
    ELSE IF response.status_code = 429 THEN Raise("Exception", S_RateLimited)
    ELSE Raise("Exception", FailedMessage(response))

\* The body of fetch_apod(date_str) when the service answers with response:
\* the GETs it issues, each with what came back, and its outcome.
fetch_apod(date_str, response) ==
    [gets |-> <<[request |-> Request(date_str), response |-> response]>>,
     outcome |-> IF response.failed THEN Raise("ConnectionError", <<>>)
                 ELSE StatusOutcome(response)]

\* An entry of the cache is live while the timer is before its expiry.
Live(entry, t) == t < entry.stored + TTL

\* The function st.cache_data(ttl=3600) makes of fetch_apod: a live entry of
\* the argument is returned without running the body; otherwise the body runs
\* and what it returns is stored (an exception is not stored).
IsHit(date_str, c, t) == date_str \in DOMAIN c /\ Live(c[date_str], t)

cached_fetch_apod(date_str, c, t, response) ==
    IF IsHit(date_str, c, t)
    THEN [hit |-> TRUE, gets |-> <<>>, outcome |-> Return(c[date_str].value), cache |-> c]
    ELSE LET r == fetch_apod(date_str, response)
         IN  [hit |-> FALSE,
              gets |-> r.gets,
              outcome |-> r.outcome,
              cache |-> IF r.outcome.raised = NoExc
                        THEN Put(c, date_str, [value |-> r.outcome.value, stored |-> t])
                        ELSE c]

\* The entries the TTL cache still holds at time t.
Unexpired(c, t) == [k \in {x \in DOMAIN c : Live(c[x], t)} |-> c[k]]

---------------------------------------------------------------------------
(* The environment: the calendar and the clock.                            *)

\* Midnight passes: date.today() is the next day.
DayRollover ==
    /\ today # LastDay
    /\ today' = NextDay(today)
    /\ UNCHANGED <<now, cache, http_log, pageVars, call, date_text, v_out>>

\* Time passes; the cache drops the entries that expired.
Tick ==
    /\ now < MaxTicks * TickSeconds
    /\ now' = now + TickSeconds
    /\ cache' = Unexpired(cache, now')
    /\ UNCHANGED <<today, http_log, pageVars, call, date_text, v_out>>

---------------------------------------------------------------------------
(* Direct calls of fetch_apod and of validate_date.                        *)

NoCall ==
    [done |-> FALSE, arg |-> None, service |-> NoResponse, hit |-> FALSE,
     outcome |-> Return(J_None)]

\* The record of a call fetch_apod(arg): its argument, what the service answers
\* at that moment (whether the call asks it or not), whether the cache
\* answered, and the call's outcome.
Called(arg, response, r) ==
    [done |-> TRUE, arg |-> arg, service |-> response, hit |-> r.hit, outcome |-> r.outcome]

\* The arguments of the direct calls: absent, empty, and a date.
FetchArgs == {None, <<>>, strftime(APOD_START)}

\* One call fetch_apod(arg) through the cache.  The service publishes what it
\* likes between calls: its answer at the moment of the call is any response.
FetchCall(arg) ==
    \E response \in Responses :
        \E r \in {cached_fetch_apod(arg, cache, now, response)} :
            /\ call' = Called(arg, response, r)
            /\ cache' = r.cache
            /\ http_log' = r.gets
            /\ UNCHANGED <<today, now, pageVars, date_text, v_out>>

\* The strings validate_date is called with: year, month and day tokens put
\* together with separators and an ending; the absent and the empty string.
YearTokens ==
    {<<"1", "9", "9", "5">>, <<"2", "0", "2", "4">>, <<"2", "0", "2", "5">>,
     <<"0", "0", "0", "0">>, <<"2", "0", "2">>, <<"2", "0", "a", "4">>}
MonthTokens == {<<"0", "0">>, <<"0", "2">>, <<"0", "3">>, <<"0", "6">>, <<"1", "3">>, <<"6">>}
DayTokens ==
    {<<"0", "0">>, <<"0", "1">>, <<"1", "5">>, <<"1", "6">>, <<"2", "8">>, <<"2", "9">>,
     <<"3", "0">>, <<"3", "1">>}
Separators == {<<"-">>, <<"/">>}
Endings == {<<>>, <<"\n">>, <<" ">>, <<"\n", "\n">>}

ValidateInputs ==
    {None, <<>>}
        \cup {y \o s \o m \o s \o d \o e :
                y \in YearTokens, m \in MonthTokens, d \in DayTokens,
                s \in Separators, e \in Endings}

NotValidated == [called |-> FALSE, day |-> Today0, result |-> FALSE, warning |-> "", raised |-> ""]

ValidateCall ==
    /\ ~v_out.called
    /\ LET r == validate_date(date_text, today)
       IN  v_out' = [called |-> TRUE, day |-> today, result |-> r.result,
                     warning |-> r.warning, raised |-> r.raised]
    /\ UNCHANGED <<envVars, fetchVars, pageVars, call, date_text>>

---------------------------------------------------------------------------
(* The page script.                                                        *)

\* The dates the date picker can show: the day before the first APOD, the
\* first APOD, and the days the calendar reaches plus one.
Calendar ==
    {<<1995, 6, 15>>, APOD_START} \cup {DayAfter(Today0, n) : n \in 0..(MaxRollovers + 1)}

\* A date picker with no upper limit.
Pickable_NoMax(max_value) == {d \in Calendar : DateLE(APOD_START, d)}

\* st.sidebar.date_input(min_value=date(1995, 6, 16), max_value=...): the
\* dates the user can pick.
Pickable(max_value) ==
    {d \in Calendar : DateLE(APOD_START, d) /\ DateLE(d, max_value)}

\* The user picks a date in the date picker of the rendered page.  What the
\* user does while a run is under way is merged into the request for the next
\* run, so the user's actions are taken between runs; a pick and a press can
\* both come before the next run begins.
UserSelectDate(d) ==
    /\ pc = "idle"
    /\ widget_max # None
    /\ d \in Pickable(widget_max)
    /\ d # date_widget
    /\ date_widget' = d
    /\ UNCHANGED <<envVars, fetchVars, widget_max, button_clicked, session_state, pc, ns,
                   st_errors, uncaught, call, date_text, v_out>>

\* The user presses the Fetch button of the rendered page.
UserClickButton ==
    /\ pc = "idle"
    /\ widget_max # None
    /\ ~button_clicked
    /\ button_clicked' = TRUE
    /\ UNCHANGED <<envVars, fetchVars, date_widget, widget_max, session_state, pc, ns,
                   st_errors, uncaught, call, date_text, v_out>>

\* value="today" until the user picks a date
WidgetValue(state, day) == IF state = None THEN day ELSE state

\* The widget states a date_input rendered with max_value=day may start from:
\* the state it had; or, when max_value differs from the last rendering,
\* the default of a new widget.
WidgetStates(day) ==
    IF widget_max \in {None, day} THEN {date_widget} ELSE {date_widget, None}

\* A script run begins; the sidebar's date_input returns the widget's value.
RunStart ==
    /\ pc = "idle"
    /\ \E state \in WidgetStates(today) :
           /\ date_widget' = state
           /\ ns' = [selected_date |-> strftime(WidgetValue(state, today))]
    /\ widget_max' = today
    /\ pc' = "bookkeeping"
    /\ UNCHANGED <<envVars, fetchVars, button_clicked, session_state, st_errors, uncaught,
                   call, date_text, v_out>>

\* session_state after the button branch
ButtonBranch(ss, selected_date) ==
    Put(Put(ss, "fetch_trigger", selected_date), "fetch_by_button", TRUE)

\* session_state after the else branch
ElseBranch(ss, selected_date, day) ==
    LET ss1 == IF "fetch_trigger" \notin DOMAIN ss
               THEN Put(Put(ss, "fetch_trigger", strftime(day)), "fetch_by_button", FALSE)
               ELSE IF Get(ss, "last_selected_date", None) # selected_date
               THEN Put(Put(ss, "fetch_trigger", selected_date), "fetch_by_button", FALSE)
               ELSE ss
    IN  Put(ss1, "last_selected_date", selected_date)

\* The Fetch button and the session bookkeeping.
Bookkeeping ==
    /\ pc = "bookkeeping"
    /\ session_state' = IF button_clicked
                        THEN ButtonBranch(session_state, ns.selected_date)
                        ELSE ElseBranch(session_state, ns.selected_date, today)
    /\ button_clicked' = FALSE
    /\ pc' = "main"
    /\ UNCHANGED <<envVars, fetchVars, date_widget, widget_max, ns, st_errors, uncaught,
                   call, date_text, v_out>>

\* None if fetch_date == date.today().strftime("%Y-%m-%d") else fetch_date
FetchArg(fetch_date, day) == IF fetch_date = strftime(day) THEN None ELSE fetch_date

\* An extraction whose title has no default.
Extracted_NoTitleDefault(data) ==
    [data |-> data,
     title |-> Get(data, "title", None),
     apod_date |-> Get(data, "date", S_UnknownDate),
     explanation |-> Get(data, "explanation", S_NoDescription),
     img_url |-> Get(data, "url", None),
     hd_url |-> Get(data, "hdurl", None),
     media_type |-> Get(data, "media_type", S_Image)]

\* The names the try block binds from data.
Extracted(data) ==
    [data |-> data,
     title |-> Get(data, "title", S_UntitledAPOD),
     apod_date |-> Get(data, "date", S_UnknownDate),
     explanation |-> Get(data, "explanation", S_NoDescription),
     img_url |-> Get(data, "url", None),
     hd_url |-> Get(data, "hdurl", None),
     media_type |-> Get(data, "media_type", S_Image)]

\* The st.error of the except handler
FetchError(exc) == S_FetchErrorPrefix \o exc.message

\* The st.error messages of the media column: an image is downloaded, which
\* works or fails (it fails when there is no url); the inner handlers show
\* the failure.  A video or another media type downloads nothing.
ImageErrors(names) ==
    IF names.media_type # S_Image THEN {<<>>}
    ELSE IF names.img_url = None THEN {<<S_ImageError>>}
    ELSE {<<>>, <<S_ImageError>>}

\* What the service may answer when the script calls fetch_apod(arg).  On a
\* cache hit it is not asked, and the record of the call holds no response.
Answers(arg) == IF IsHit(arg, cache, now) THEN {NoResponse} ELSE Responses

\* The main content: the fetch and the display, with its except handler.
Main ==
    /\ pc = "main"
    /\ LET fetch_date == Get(session_state, "fetch_trigger", None)
       IN  IF Truthy(fetch_date)
           THEN \E arg \in {FetchArg(fetch_date, today)} :
                \E response \in Answers(arg) :
                \E r \in {cached_fetch_apod(arg, cache, now, response)} :
                    /\ call' = Called(arg, response, r)
                    /\ cache' = r.cache
                    /\ http_log' = http_log \o r.gets
                    /\ IF r.outcome.raised = NoExc
                       THEN /\ ns' = ns @@ [fetch_date |-> fetch_date] @@ Extracted(r.outcome.value)
                            /\ session_state' =
                                   IF Get(session_state, "fetch_by_button", FALSE)
                                   THEN Put(session_state, "fetch_by_button", FALSE)
                                   ELSE session_state
                            /\ \E shown \in ImageErrors(Extracted(r.outcome.value)) :
                                   st_errors' = shown
                       ELSE /\ ns' = ns @@ [fetch_date |-> fetch_date]
                            /\ session_state' = session_state
                            /\ st_errors' = <<FetchError(r.outcome.raised)>>
           ELSE /\ ns' = ns @@ [fetch_date |-> fetch_date]
                /\ UNCHANGED <<cache, http_log, call, session_state, st_errors>>
    /\ pc' = "solar"
    /\ UNCHANGED <<today, now, date_widget, widget_max, button_clicked, uncaught, date_text,
                   v_out>>

solar_system_keywords ==
    <<K_mercury, K_venus, K_earth, K_mars, K_jupiter, K_saturn, K_uranus, K_neptune,
      K_moon, K_sun, K_comet, K_asteroid, K_aurora>>

\* keyword in title.lower() or keyword in explanation.lower()
Mentions(word, title, explanation) ==
    \E t \in {Lower(title)}, e \in {Lower(explanation)} : Contains(t, word) \/ Contains(e, word)

apod_is_solar(title, explanation) ==
    \E i \in 1..Len(solar_system_keywords) :
        Mentions(solar_system_keywords[i], title, explanation)

\* The bodies tried for main_body, in order.
MainBodies ==
    <<B_Mercury, B_Venus, B_Mars, B_Jupiter, B_Saturn, B_Uranus, B_Neptune, B_Earth, B_Moon>>

main_body(title, explanation) ==
    LET hits == {i \in 1..Len(MainBodies) : Mentions(Lower(MainBodies[i]), title, explanation)}
    IN  IF hits = {} THEN B_Sun
        ELSE MainBodies[CHOOSE i \in hits : \A j \in hits : i <= j]

\* solar_system_data['Body']
PlotBodies ==
    <<B_Sun, B_Mercury, B_Venus, B_Earth, B_Mars, B_Jupiter, B_Saturn, B_Uranus, B_Neptune>>

\* get_solar_system_plot(apod_body): the figure's Highlight column, row by row.
get_solar_system_plot(apod_body) ==
    [i \in 1..Len(PlotBodies) |->
        IF Lower(PlotBodies[i]) = Lower(apod_body) THEN "APOD Focus" ELSE "Solar System Body"]

\* The solar-system section at the end of the script.  It reads title and
\* explanation, names the try block binds only when the fetch succeeded.
Solar ==
    /\ pc = "solar"
    /\ IF "title" \notin DOMAIN ns \/ "explanation" \notin DOMAIN ns
       THEN /\ uncaught' = [type |-> "NameError", message |-> <<>>]
            /\ ns' = ns
       ELSE /\ uncaught' = uncaught
            /\ IF apod_is_solar(ns.title, ns.explanation)
               THEN \E body \in {main_body(ns.title, ns.explanation)} :
                        ns' = ns @@ [apod_is_solar |-> TRUE, main_body |-> body,
                                     solar_fig |-> get_solar_system_plot(body)]
               ELSE ns' = ns @@ [apod_is_solar |-> FALSE]
    /\ pc' = "done"
    /\ UNCHANGED <<envVars, fetchVars, date_widget, widget_max, button_clicked,
                   session_state, st_errors, call, date_text, v_out>>

\* The run is over: its namespace is discarded and the page waits for the user.
RunEnd ==
    /\ pc = "done"
    /\ ns' = [k \in {} |-> 0]
    /\ st_errors' = <<>>
    /\ uncaught' = NoExc
    /\ http_log' = <<>>
    /\ call' = NoCall
    /\ pc' = "idle"
    /\ UNCHANGED <<envVars, cache, date_widget, widget_max, button_clicked, session_state,
                   date_text, v_out>>

---------------------------------------------------------------------------
(* Properties of fetch_apod (under SpecFetch).                             *)

\* The response the last call received, when it asked the service.
Received == http_log[1].response

\* C1: the outcome of a call that received a response is decided by the
\* status code: 200 returns the parsed record; 404 raises the not-found
\* message; 429 raises the rate-limit message; any other status raises a
\* message that holds the status code and the response body and is neither of
\* the other two; no status but 200 returns a record.
C1_StatusMapping ==
    (call.done /\ ~call.hit /\ ~call.service.failed) =>
        LET response == Received
            code == response.status_code
            out == call.outcome
        IN  /\ code = 200 => out = [raised |-> NoExc, value |-> response.json]
            /\ code # 200 => out.raised # NoExc /\ out.raised.type = "Exception"
            /\ code = 404 => out.raised.message = S_NotFound
            /\ code = 429 => out.raised.message = S_RateLimited
            /\ code \notin {200, 404, 429} =>
                   /\ Contains(out.raised.message, Str(code))
                   /\ Contains(out.raised.message, response.text)
                   /\ out.raised.message \notin {S_NotFound, S_RateLimited}
            /\ S_NotFound # S_RateLimited

\* A call that received status 500 with a body raised the message holding both.
C1_Witness ==
    /\ call.done /\ ~call.hit
    /\ call.service = Err(500, S_Oops)
    /\ call.outcome.raised.message = S_FailedPrefix \o <<"5", "0", "0">> \o S_ResponseInfix \o S_Oops

\* C4: a call answered from the cache returns what a fresh request with the
\* same argument would return at that moment.
C4_CacheIndistinguishable ==
    (call.done /\ call.hit) => call.outcome = fetch_apod(call.arg, call.service).outcome

\* fetch_apod(None) was answered from the cache with one entry while the
\* service was publishing another.
C4_Witness ==
    /\ call.done /\ call.hit
    /\ call.arg = None
    /\ call.outcome = Return(J_Moon)
    /\ call.service = Ok(J_Mars)

\* C6: a call that runs the body of fetch_apod issues exactly one GET, to
\* API_URL, with api_key, with date equal to the argument when the argument is
\* a non-empty string, and with no date when the argument is None.
C6_OneGetWithParams ==
    (call.done /\ ~call.hit) =>
        /\ Len(http_log) = 1
        /\ http_log[1].request.url = API_URL
        /\ http_log[1].request.params.api_key = API_KEY
        /\ (call.arg # None /\ call.arg # <<>>) =>
               /\ "date" \in DOMAIN http_log[1].request.params
               /\ http_log[1].request.params.date = call.arg
        /\ call.arg = None => DOMAIN http_log[1].request.params = {"api_key"}

\* A call with a date issued its GET with that date.
C6_Witness ==
    /\ call.done /\ ~call.hit
    /\ call.arg = <<"1", "9", "9", "5", "-", "0", "6", "-", "1", "6">>
    /\ Len(http_log) = 1
    /\ http_log[1].request.params.date = call.arg

---------------------------------------------------------------------------
(* Properties of validate_date (under SpecValidate).                       *)

\* The calendar dates the inputs can spell.
SpelledDates ==
    {d \in {1995, 2024, 2025} \X {2, 3, 6} \X {1, 15, 16, 28, 29, 30, 31} :
        ValidDate(d[1], d[2], d[3])}

\* C2: for a calendar date d written YYYY-MM-DD, validate_date returns true
\* exactly when 1995-06-16 <= d <= today, today being the date at the call.
C2_RangeExactly ==
    v_out.called =>
        \A d \in SpelledDates :
            date_text = strftime(d) =>
                /\ v_out.raised = ""
                /\ v_out.result = (DateLE(<<1995, 6, 16>>, d) /\ DateLE(d, v_out.day))

\* The date of the call itself, after a rollover, was accepted.
C2_Witness ==
    /\ v_out.called
    /\ v_out.day = <<2024, 2, 29>>
    /\ date_text = <<"2", "0", "2", "4", "-", "0", "2", "-", "2", "9">>
    /\ v_out.result = TRUE

\* exactly 4 digits, "-", 2 digits, "-", 2 digits
ExactShape(s) ==
    /\ Len(s) = 10
    /\ \A i \in {1, 2, 3, 4, 6, 7, 9, 10} : s[i] \in {"0", "1", "2", "3", "4", "5", "6", "7", "8", "9"}
    /\ s[5] = "-" /\ s[8] = "-"

\* a string of that shape that names a date of the calendar
NamesDate(s) ==
    /\ ExactShape(s)
    /\ ValidDate(ToInt(SubSeq(s, 1, 4)), ToInt(SubSeq(s, 6, 7)), ToInt(SubSeq(s, 9, 10)))

\* C3: a non-empty string that has not exactly the shape YYYY-MM-DD, or has it
\* and names no calendar date, is answered false; no exception escapes.
C3_MalformedIsFalse ==
    v_out.called =>
        /\ v_out.raised = ""
        /\ (date_text # None /\ date_text # <<>>
              /\ (~ExactShape(date_text) \/ ~NamesDate(date_text)))
               => v_out.result = FALSE

\* A date followed by a newline was answered true.
C3_Witness ==
    /\ v_out.called
    /\ date_text = <<"1", "9", "9", "5", "-", "0", "6", "-", "1", "6", "\n">>
    /\ v_out.raised = ""
    /\ v_out.result = TRUE

---------------------------------------------------------------------------
(* Properties of the page script (under Spec).                             *)

\* C5: a date string passed to fetch_apod is the date of a day from
\* 1995-06-16 to today.
C5_DateInRange ==
    (call.done /\ call.arg # None) =>
        \E d \in Calendar :
            /\ call.arg = strftime(d)
            /\ DateLE(<<1995, 6, 16>>, d)
            /\ DateLE(d, today)

\* After a rollover the script passed yesterday's date, which it had fetched
\* as "today" before.
C5_Witness ==
    /\ pc = "done"
    /\ call.done
    /\ call.arg = <<"2", "0", "2", "4", "-", "0", "2", "-", "2", "8">>
    /\ today = <<2024, 2, 29>>

\* C7: after a successful fetch the names title, explanation and media_type are
\* bound: each to the field of the returned record when it has the field, and
\* to its default otherwise; the record a 200 response gives is its JSON.
C7_FieldsDefaulted ==
    (pc \in {"solar", "done"} /\ call.done /\ call.outcome.raised = NoExc) =>
        LET data == call.outcome.value
        IN  /\ ~call.hit => (call.service.status_code = 200 /\ data = call.service.json)
            /\ {"title", "explanation", "media_type"} \subseteq DOMAIN ns
            /\ ns.title = IF "title" \in DOMAIN data THEN data.title ELSE S_UntitledAPOD
            /\ ns.explanation = IF "explanation" \in DOMAIN data THEN data.explanation
                                ELSE S_NoDescription
            /\ ns.media_type = IF "media_type" \in DOMAIN data THEN data.media_type
                               ELSE <<"i", "m", "a", "g", "e">>

\* A record with a title and no explanation: the title kept, the rest defaulted.
C7_Witness ==
    /\ pc = "done"
    /\ call.done /\ ~call.hit
    /\ call.service = Ok(J_Comet)
    /\ ns.title = S_Comet
    /\ ns.explanation = S_NoDescription
    /\ ns.media_type = S_Image

\* C8: after the session bookkeeping of a run, fetch_trigger is the date
\* selected in the date input (on a day without a rollover).
C8_TriggerIsSelected ==
    (today = Today0 /\ pc \in {"main", "solar", "done"}) =>
        /\ "fetch_trigger" \in DOMAIN session_state
        /\ session_state["fetch_trigger"] = ns.selected_date

\* With today selected in the date input, the run fetches 1995-06-16.
C8_Witness ==
    /\ today = Today0
    /\ pc = "main"
    /\ ns.selected_date = strftime(Today0)
    /\ session_state["fetch_trigger"] = strftime(APOD_START)
    /\ session_state["last_selected_date"] = ns.selected_date

\* C9: a run in which fetch_apod failed shows one error message, issues no
\* second GET, and ends without an uncaught exception.
C9_FailureHandled ==
    (pc = "done" /\ call.done /\ call.outcome.raised # NoExc) =>
        /\ Len(st_errors) = 1
        /\ Len(http_log) <= 1
        /\ uncaught = NoExc

\* A 404 was shown as an error, and the run then ended in a NameError.
C9_Witness ==
    /\ pc = "done"
    /\ call.done
    /\ call.outcome.raised.message = S_NotFound
    /\ st_errors = <<S_FetchErrorPrefix \o S_NotFound>>
    /\ uncaught.type = "NameError"

\* The first of the bodies, in the order of the script, that the title or the
\* explanation names, Sun when it names none.
FirstNamed(title, explanation) ==
    LET hits == {i \in 1..Len(MainBodies) :
                    \/ Contains(Lower(title), Lower(MainBodies[i]))
                    \/ Contains(Lower(explanation), Lower(MainBodies[i]))}
    IN  IF hits = {} THEN B_Sun
        ELSE MainBodies[CHOOSE i \in hits : \A j \in hits : i <= j]

\* C10: when the plot is drawn, exactly one of the nine plotted bodies is marked
\* "APOD Focus", and it is main_body, the first body named.
C10_OneFocus ==
    (pc = "done" /\ "solar_fig" \in DOMAIN ns) =>
        LET focus == {i \in 1..Len(PlotBodies) : ns.solar_fig[i] = "APOD Focus"}
        IN  /\ ns.main_body = FirstNamed(ns.title, ns.explanation)
            /\ Cardinality(focus) = 1
            /\ \A i \in focus : PlotBodies[i] = ns.main_body

\* The plot was drawn for main_body Moon, and none of its bodies is marked.
C10_Witness ==
    /\ pc = "done"
    /\ "solar_fig" \in DOMAIN ns
    /\ ns.main_body = B_Moon
    /\ \A i \in 1..Len(PlotBodies) : ns.solar_fig[i] = "Solar System Body"

---------------------------------------------------------------------------
(* Specifications.                                                         *)

InitEnv ==
    /\ today = Today0
    /\ now = 0
    /\ cache = [k \in {} |-> 0]
    /\ http_log = <<>>

InitPage ==
    /\ date_widget = None
    /\ widget_max = None
    /\ button_clicked = FALSE
    /\ session_state = [k \in {} |-> 0]
    /\ pc = "idle"
    /\ ns = [k \in {} |-> 0]
    /\ st_errors = <<>>
    /\ uncaught = NoExc

\* A session of the page.
Init ==
    /\ InitEnv
    /\ InitPage
    /\ call = NoCall
    /\ date_text = None
    /\ v_out = NotValidated

Next ==
    \/ RunStart
    \/ Bookkeeping
    \/ Main
    \/ Solar
    \/ RunEnd
    \/ \E d \in Calendar : UserSelectDate(d)
    \/ UserClickButton
    \/ DayRollover

Spec == Init /\ [][Next]_vars

\* Calls of fetch_apod with time passing in between.
NextFetch ==
    \/ \E arg \in FetchArgs : FetchCall(arg)
    \/ Tick

SpecFetch == Init /\ [][NextFetch]_vars

\* One call of validate_date on each input, on any of the days.
InitValidate ==
    /\ InitEnv
    /\ InitPage
    /\ call = NoCall
    /\ date_text \in ValidateInputs
    /\ v_out = NotValidated

NextValidate ==
    \/ ValidateCall
    \/ DayRollover

SpecValidate == InitValidate /\ [][NextValidate]_vars

===========================================================================
